---- MODULE Spec2Model ----
(***************************************************************************)
(* Beam sizing engine of core_engine.py: the material table, the three     *)
(* mechanics formulas, optimize_beam's depth scan, simulate_sensor_load    *)
(* and recalibrate_design.                                                 *)
(*                                                                         *)
(* Numbers.  The program computes in IEEE doubles; the model computes in   *)
(* exact rationals extended with the IEEE specials.  A number is a record  *)
(* [n, d] with d >= 0 and gcd(n, d) = 1:                                   *)
(*     d > 0          the rational n/d                                     *)
(*     [1, 0], [-1,0] +inf, -inf   (x / 0.0 for a numpy float, x # 0)      *)
(*     [0, 0]         nan          (0.0 / 0.0)                             *)
(* Units.  Lengths are metres.  Forces are meganewtons, so that a load is  *)
(* MN/m, a moment MN.m and a stress MPa: 5e6 Pa is 5, 20000 N/m is 1/50.   *)
(* Money is rupees.                                                        *)
(* Zero is unsigned: where the program divides by -0.0 and gets -inf the   *)
(* model has +inf.  That happens only for a span of 0 with a negative      *)
(* load, or a negative width with no load.                                 *)
(***************************************************************************)
EXTENDS Integers, Sequences, FiniteSets

\* ------------------------------------------------------------ arithmetic

\* TLC hands an operator its arguments unevaluated and, under ENABLED,
\* evaluates them anew at every use.  The operators below bind each
\* argument to its value first (x \in {a}), once.
Only(S) == CHOOSE x \in S : TRUE

Abs(x) == IF x < 0 THEN -x ELSE x

Sign(x) == IF x < 0 THEN -1 ELSE IF x > 0 THEN 1 ELSE 0

RECURSIVE Gcd(_, _)
Gcd(a, b) ==
    Only({IF y = 0 THEN x ELSE Gcd(y, x % y) : x \in {a}, y \in {b}})

\* The number n/d in lowest terms, the sign on the numerator.
Norm(n, d) ==
    Only({IF y = 0 THEN [n |-> Sign(x), d |-> 0]
          ELSE Only({[n |-> Sign(y) * (x \div g), d |-> Abs(y) \div g] :
                        g \in {Gcd(Abs(x), Abs(y))}}) :
          x \in {n}, y \in {d}})

Rat(n, d) == Norm(n, d)

IsNan(x) == x.d = 0 /\ x.n = 0

\* a * b, cancelling across the factors before multiplying.
Mul(a, b) ==
    Only({Only({Only({Norm((x.n \div h1) * (y.n \div h2),
                           (x.d \div h2) * (y.d \div h1)) :
                         h1 \in {IF g1 = 0 THEN 1 ELSE g1},
                         h2 \in {IF g2 = 0 THEN 1 ELSE g2}}) :
                   g1 \in {Gcd(Abs(x.n), y.d)},
                   g2 \in {Gcd(Abs(y.n), x.d)}}) :
          x \in {a}, y \in {b}})

\* a / b with the IEEE results for a zero or infinite divisor.
Div(a, b) ==
    Only({Mul(a, IF y.n = 0 THEN [n |-> y.d, d |-> 0]
                 ELSE [n |-> Sign(y.n) * y.d, d |-> Abs(y.n)]) :
          y \in {b}})

Add(a, b) ==
    Only({Norm(x.n * y.d + y.n * x.d, x.d * y.d) : x \in {a}, y \in {b}})

Sub(a, b) == Only({Add(a, [n |-> -y.n, d |-> y.d]) : y \in {b}})

\* a < b as IEEE compares: false when either side is nan.
Less(a, b) ==
    \E x \in {a}, y \in {b} :
        IF IsNan(x) \/ IsNan(y) THEN FALSE
        ELSE IF x.d = 0 /\ y.d = 0 THEN x.n < y.n
        ELSE IF x.d = 0 THEN x.n < 0
        ELSE IF y.d = 0 THEN y.n > 0
        ELSE x.n * y.d < y.n * x.d

Leq(a, b) == \E x \in {a}, y \in {b} : Less(x, y) \/ (~IsNan(x) /\ x = y)

\* The least integer >= a, for a finite a.
Ceil(a) == Only({-((-x.n) \div x.d) : x \in {a}})

RECURSIVE Pow10(_)
Pow10(k) == Only({IF j = 0 THEN 1 ELSE 10 * Pow10(j - 1) : j \in {k}})

\* Long division: k more decimal digits of r/d appended to f; the digits
\* and the remainder left.
RECURSIVE Digits(_, _, _, _)
Digits(f, r, d, k) ==
    Only({IF j = 0 THEN [f |-> g, r |-> s]
          ELSE Digits(g * 10 + ((s * 10) \div d), (s * 10) % d, d, j - 1) :
          g \in {f}, s \in {r}, j \in {k}})

\* round(x, ndigits): x to ndigits decimals, ties to even, as a decimal
\* [k, neg, whole, frac] with frac counting units of 10^-ndigits.  An
\* infinity or a nan rounds to itself.
RoundFinite(x, ndigits) ==
    Only({Only({Only({[k |-> "fin", neg |-> x.n < 0 /\ (wh > 0 \/ fc > 0),
                       whole |-> wh, frac |-> fc] :
                         wh \in {IF f1 = Pow10(ndigits) THEN w + 1 ELSE w},
                         fc \in {IF f1 = Pow10(ndigits) THEN 0 ELSE f1}}) :
                   f1 \in {IF 2 * fr.r > x.d \/ (2 * fr.r = x.d /\ fr.f % 2 = 1)
                           THEN fr.f + 1 ELSE fr.f}}) :
          w \in {Abs(x.n) \div x.d},
          fr \in {Digits(0, Abs(x.n) % x.d, x.d, ndigits)}})

round(x, ndigits) ==
    Only({IF y.d = 0
          THEN [k |-> IF y.n = 0 THEN "nan" ELSE "inf", neg |-> y.n < 0,
                whole |-> 0, frac |-> 0]
          ELSE RoundFinite(y, ndigits) :
          y \in {x}})

\* The number a decimal of ndigits decimals stands for.
DecValue(dec, ndigits) ==
    Only({IF v.k = "nan" THEN [n |-> 0, d |-> 0]
          ELSE IF v.k = "inf" THEN [n |-> IF v.neg THEN -1 ELSE 1, d |-> 0]
          ELSE Norm((IF v.neg THEN -1 ELSE 1)
                        * (v.whole * Pow10(ndigits) + v.frac),
                    Pow10(ndigits)) :
          v \in {dec}})

\* --------------------------------------------------------------- inputs

\* The calls the environment makes draw their arguments from these sets.
\* 5 m, 20000 N/m, "Concrete" and 0.3 m are the program's own example; the
\* other values reach a boundary of the scan (see the witnesses).  Loads are
\* -20, 0, 20, 25, 1000 and 3500 kN/m: for these, and for the sensor's
\* readings of them, the doubles of the program and the exact numbers of
\* the model pass the same depths and round to the same dictionaries.
Spans == {Rat(0, 1), Rat(5, 1), Rat(10, 1)}

Loads == {Rat(-1, 50), Rat(0, 1), Rat(1, 50), Rat(1, 40), Rat(1, 1), Rat(7, 2)}

MaterialNames == {"Concrete", "Steel", "Timber"}

Widths == {Rat(-3, 10), Rat(0, 1), Rat(3, 10)}

\* The sensor's variation is drawn from [-0.2, 0.2]; the model draws it
\* from the 2 * VariationSteps + 1 evenly spaced points of that interval.
VariationSteps == 1

\* ------------------------------------------------------------- program

VARIABLES
    MATERIALS,         \* the module-level material table
    pc,                \* where optimize_beam is: idle, lookup, moment, scan, return
    args,              \* optimize_beam's parameters
    allowable_stress,  \* optimize_beam's locals
    cost_per_m3,
    moment,
    idx,               \* the position of the for loop in the arange
    best_solution,
    rpc,               \* where recalibrate_design is: none, initial, sensor,
                       \* recal, updated, return
    rargs,             \* recalibrate_design's parameters
    initial_design,    \* recalibrate_design's locals
    actual_load,
    updated_design,
    result,            \* how the last top-level call ended, and with what
    scanned,           \* observer: the arange positions the loop body ran at
    calls,             \* observer: what the last top-level call has called
    memo               \* observer: an earlier optimize_beam call and its outcome

vars == <<MATERIALS, pc, args, allowable_stress, cost_per_m3, moment, idx,
          best_solution, rpc, rargs, initial_design, actual_load,
          updated_design, result, scanned, calls, memo>>

optVars == <<args, allowable_stress, cost_per_m3, moment, idx, best_solution>>
recVars == <<rargs, initial_design, actual_load, updated_design>>

\* Python's None, and the value of a name not bound yet.
None == [kind |-> "None"]
Unbound == [kind |-> "unbound"]

MaterialTable ==
    [m \in {"Concrete", "Steel"} |->
        IF m = "Concrete"
        THEN [allowable_stress |-> Rat(5, 1), cost_per_m3 |-> Rat(5000, 1)]
        ELSE [allowable_stress |-> Rat(250, 1), cost_per_m3 |-> Rat(60000, 1)]]

\* A variant of calculate_bending_moment: the moment of the load's magnitude.
MomentOfMagnitude(load_per_m, span) ==
    Div(Mul(Rat(Abs(load_per_m.n), load_per_m.d), Mul(span, span)), Rat(8, 1))

\* M = w L^2 / 8
calculate_bending_moment(load_per_m, span) ==
    Div(Mul(load_per_m, Mul(span, span)), Rat(8, 1))

\* Z = b d^2 / 6
calculate_section_modulus(width, depth) ==
    Div(Mul(width, Mul(depth, depth)), Rat(6, 1))

\* sigma = M / Z
calculate_stress(m, section_modulus) == Div(m, section_modulus)

\* np.arange(0.2, 1.0, 0.01): ceil((stop - start) / step) values
\* start + i * step.
ArangeStart == Rat(1, 5)
ArangeStopShort == Rat(9, 10)      \* a variant: the scan stops at 0.90
ArangeStop == Rat(1, 1)
ArangeStep == Rat(1, 100)

\* A variant of ArangeLen: the stop value counted in.
ArangeLenInclusive ==
    Ceil(Div(Sub(ArangeStop, ArangeStart), ArangeStep)) + 1

ArangeLen == Ceil(Div(Sub(ArangeStop, ArangeStart), ArangeStep))

\* A variant of Arange: the first value left out.
ArangeShifted(i) == Add(ArangeStart, Mul(Rat(i + 1, 1), ArangeStep))

Arange(i) == Add(ArangeStart, Mul(Rat(i, 1), ArangeStep))

\* The stress the loop body computes at position i of the arange.
StressAt(a, m, i) ==
    calculate_stress(m, calculate_section_modulus(a.width, Arange(i)))

\* Variants of the test of line 65: <= for <, and the comparison reversed.
FeasibleOrEqual(stress, allowable) == Leq(stress, allowable)

FeasibleReversed(stress, allowable) == Less(allowable, stress)

\* The test of line 65.
Feasible(stress, allowable) == Less(stress, allowable)

\* The dictionary of lines 67-76.
Solution(a, allowable, unit_cost, stress, depth) ==
    LET volume == Mul(Mul(a.width, depth), a.span)
        cost == Mul(volume, unit_cost)
        safety_factor == Div(allowable, stress)
    IN  [kind |-> "dict",
         depth |-> round(depth, 3),
         stress |-> round(stress, 2 + 6),   \* 2 decimals of a Pa, in MPa
         cost |-> round(cost, 2),
         safety_factor |-> round(safety_factor, 2)]

\* The variations the sensor may draw, and simulate_sensor_load for one of
\* them: round(expected_load * (1 + variation), 2), 2 decimals of a N/m
\* being 8 decimals of a MN/m.
Variations ==
    {Rat(k, 5 * VariationSteps) : k \in (-VariationSteps) .. VariationSteps}

simulate_sensor_load(expected_load, variation) ==
    LET actual == Mul(expected_load, Add(Rat(1, 1), variation))
    IN  DecValue(round(actual, 2 + 6), 2 + 6)

Init ==
    /\ MATERIALS = MaterialTable
    /\ pc = "idle"
    /\ args = Unbound
    /\ allowable_stress = Unbound
    /\ cost_per_m3 = Unbound
    /\ moment = Unbound
    /\ idx = Unbound
    /\ best_solution = Unbound
    /\ rpc = "none"
    /\ rargs = Unbound
    /\ initial_design = Unbound
    /\ actual_load = Unbound
    /\ updated_design = Unbound
    /\ result = [of |-> "none", kind |-> "none", value |-> None]
    /\ scanned = <<>>
    /\ calls = <<>>
    /\ memo = None

\* What fixes a series of calls that differ in the load alone.
Geometry(a) == <<a.span, a.material, a.width>>

\* The observer keeps, of each run of optimize_beam calls that share span,
\* material and width, the first call to end, with its outcome: a call
\* that begins with another geometry starts a new run.
Kept(a) ==
    IF memo # None /\ Geometry(memo.arg) = Geometry(a) THEN memo ELSE None

Observe(a, outcome) ==
    IF memo = None THEN [arg |-> a, ret |-> outcome] ELSE memo

KeyError == [kind |-> "KeyError"]

\* The log with the outcome of its last call filled in.
Returned(log, v) == [log EXCEPT ![Len(log)].ret = v]

\* Entry to optimize_beam with parameters a: a fresh frame.  log is what the
\* running top-level call has called before.
Enter(a, log) ==
    /\ pc' = "lookup"
    /\ args' = a
    /\ allowable_stress' = Unbound
    /\ cost_per_m3' = Unbound
    /\ moment' = Unbound
    /\ idx' = Unbound
    /\ best_solution' = Unbound
    /\ scanned' = <<>>
    /\ calls' = Append(log, [fn |-> "optimize_beam", arg |-> a,
                             ret |-> Unbound])
    /\ memo' = Kept(a)

\* optimize_beam's frame is dropped.
Leave ==
    /\ pc' = "idle"
    /\ args' = Unbound
    /\ allowable_stress' = Unbound
    /\ cost_per_m3' = Unbound
    /\ moment' = Unbound
    /\ idx' = Unbound
    /\ best_solution' = Unbound

\* The environment calls optimize_beam(span, load_per_m, material, width).
CallOptimize ==
    /\ pc = "idle" /\ rpc = "none"
    /\ \E span \in Spans, load_per_m \in Loads, material \in MaterialNames,
          width \in Widths :
          Enter([span |-> span, load_per_m |-> load_per_m,
                 material |-> material, width |-> width], <<>>)
    /\ result' = [of |-> "optimize_beam", kind |-> "running", value |-> None]
    /\ UNCHANGED <<MATERIALS, rpc, recVars>>

\* A variant of Lookup: the entry is taken out of the table (pop for []).
LookupPop ==
    /\ pc = "lookup"
    /\ args.material \in DOMAIN MATERIALS
    /\ allowable_stress' = MATERIALS[args.material].allowable_stress
    /\ cost_per_m3' = MATERIALS[args.material].cost_per_m3
    /\ MATERIALS' = [m \in DOMAIN MATERIALS \ {args.material} |-> MATERIALS[m]]
    /\ pc' = "moment"
    /\ UNCHANGED <<args, moment, idx, best_solution, rpc, recVars,
                   result, scanned, calls, memo>>

\* Lines 52-53, the material in the table.
Lookup ==
    /\ pc = "lookup"
    /\ args.material \in DOMAIN MATERIALS
    /\ allowable_stress' = MATERIALS[args.material].allowable_stress
    /\ cost_per_m3' = MATERIALS[args.material].cost_per_m3
    /\ pc' = "moment"
    /\ UNCHANGED <<MATERIALS, args, moment, idx, best_solution, rpc, recVars,
                   result, scanned, calls, memo>>

\* A variant of LookupKeyError: a material not in the table is taken for
\* concrete (get with a default for []).
LookupFallback ==
    /\ pc = "lookup"
    /\ args.material \notin DOMAIN MATERIALS
    /\ allowable_stress' = MATERIALS["Concrete"].allowable_stress
    /\ cost_per_m3' = MATERIALS["Concrete"].cost_per_m3
    /\ pc' = "moment"
    /\ UNCHANGED <<MATERIALS, args, moment, idx, best_solution, rpc, recVars,
                   result, scanned, calls, memo>>

\* Line 52, the material not in the table: the KeyError leaves
\* optimize_beam and, uncaught, recalibrate_design when that is the caller.
LookupKeyError ==
    /\ pc = "lookup"
    /\ args.material \notin DOMAIN MATERIALS
    /\ Leave
    /\ rpc' = "none"
    /\ rargs' = Unbound
    /\ initial_design' = Unbound
    /\ actual_load' = Unbound
    /\ updated_design' = Unbound
    /\ result' = [of |-> result.of, kind |-> "raise", value |-> KeyError]
    /\ calls' = Returned(calls, KeyError)
    /\ memo' = Observe(args, KeyError)
    /\ UNCHANGED <<MATERIALS, scanned>>

\* Lines 55-60: the moment, best_solution = None, the loop's iterator.
ComputeMoment ==
    /\ pc = "moment"
    /\ moment' = calculate_bending_moment(args.load_per_m, args.span)
    /\ best_solution' = None
    /\ idx' = 0
    /\ pc' = "scan"
    /\ UNCHANGED <<MATERIALS, args, allowable_stress, cost_per_m3, rpc,
                   recVars, result, scanned, calls, memo>>

\* Lines 60-65, a depth whose stress fails the test: on to the next depth.
ScanReject ==
    /\ pc = "scan"
    /\ idx < ArangeLen
    /\ ~Feasible(StressAt(args, moment, idx), allowable_stress)
    /\ idx' = idx + 1
    /\ scanned' = Append(scanned, idx)
    /\ UNCHANGED <<MATERIALS, pc, args, allowable_stress, cost_per_m3, moment,
                   best_solution, rpc, recVars, result, calls, memo>>

\* Lines 60-78, a depth whose stress passes: the solution, and break.
ScanAccept ==
    /\ pc = "scan"
    /\ idx < ArangeLen
    /\ Feasible(StressAt(args, moment, idx), allowable_stress)
    /\ best_solution' = Solution(args, allowable_stress, cost_per_m3,
                                 StressAt(args, moment, idx), Arange(idx))
    /\ scanned' = Append(scanned, idx)
    /\ pc' = "return"
    /\ UNCHANGED <<MATERIALS, args, allowable_stress, cost_per_m3, moment, idx,
                   rpc, recVars, result, calls, memo>>

\* Line 60, the arange exhausted: the loop ends.
ScanExhausted ==
    /\ pc = "scan"
    /\ idx >= ArangeLen
    /\ pc' = "return"
    /\ UNCHANGED <<MATERIALS, args, allowable_stress, cost_per_m3, moment, idx,
                   best_solution, rpc, recVars, result, scanned, calls,
                   memo>>

\* Line 80: return best_solution, to the environment or into the local of
\* recalibrate_design that the call assigns (lines 101 and 108).
OptimizeReturn ==
    /\ pc = "return"
    /\ Leave
    /\ calls' = Returned(calls, best_solution)
    /\ memo' = Observe(args, best_solution)
    /\ rpc' = CASE rpc = "initial" -> "sensor"
                [] rpc = "updated" -> "return"
                [] OTHER -> rpc
    /\ initial_design' =
          IF rpc = "initial" THEN best_solution ELSE initial_design
    /\ updated_design' =
          IF rpc = "updated" THEN best_solution ELSE updated_design
    /\ result' = IF rpc = "none"
                 THEN [of |-> "optimize_beam", kind |-> "return",
                       value |-> best_solution]
                 ELSE result
    /\ UNCHANGED <<MATERIALS, rargs, actual_load, scanned>>

\* The environment calls recalibrate_design(span, expected_load, material,
\* width), which calls optimize_beam with the expected load (line 101).
CallRecalibrate ==
    /\ pc = "idle" /\ rpc = "none"
    /\ \E span \in Spans, expected_load \in Loads, material \in MaterialNames,
          width \in Widths :
          /\ rargs' = [span |-> span, expected_load |-> expected_load,
                       material |-> material, width |-> width]
          /\ Enter([span |-> span, load_per_m |-> expected_load,
                    material |-> material, width |-> width], <<>>)
    /\ rpc' = "initial"
    /\ initial_design' = Unbound
    /\ actual_load' = Unbound
    /\ updated_design' = Unbound
    /\ result' = [of |-> "recalibrate_design", kind |-> "running",
                  value |-> None]
    /\ UNCHANGED MATERIALS

\* Line 104: the sensor's reading.
SenseLoad ==
    /\ rpc = "sensor"
    /\ \E variation \in Variations :
          /\ actual_load' = simulate_sensor_load(rargs.expected_load, variation)
          /\ calls' = Append(calls, [fn |-> "simulate_sensor_load",
                                     arg |-> rargs.expected_load,
                                     ret |-> actual_load'])
    /\ rpc' = "recal"
    /\ UNCHANGED <<MATERIALS, pc, optVars, rargs, initial_design,
                   updated_design, result, scanned, memo>>

\* A variant of CallUpdated: the second call with the expected load again.
CallUpdatedExpected ==
    /\ rpc = "recal"
    /\ Enter([span |-> rargs.span, load_per_m |-> rargs.expected_load,
              material |-> rargs.material, width |-> rargs.width], calls)
    /\ rpc' = "updated"
    /\ UNCHANGED <<MATERIALS, recVars, result>>

\* Line 108: optimize_beam with the reading.
CallUpdated ==
    /\ rpc = "recal"
    /\ Enter([span |-> rargs.span, load_per_m |-> actual_load,
              material |-> rargs.material, width |-> rargs.width], calls)
    /\ rpc' = "updated"
    /\ UNCHANGED <<MATERIALS, recVars, result>>

\* Line 111: return initial_design, updated_design.
RecalibrateReturn ==
    /\ rpc = "return"
    /\ result' = [of |-> "recalibrate_design", kind |-> "return",
                  value |-> <<initial_design, updated_design>>]
    /\ rpc' = "none"
    /\ rargs' = Unbound
    /\ initial_design' = Unbound
    /\ actual_load' = Unbound
    /\ updated_design' = Unbound
    /\ UNCHANGED <<MATERIALS, pc, optVars, scanned, calls, memo>>

Next ==
    \/ CallOptimize
    \/ Lookup
    \/ LookupKeyError
    \/ ComputeMoment
    \/ ScanReject
    \/ ScanAccept
    \/ ScanExhausted
    \/ OptimizeReturn
    \/ CallRecalibrate
    \/ SenseLoad
    \/ CallUpdated
    \/ RecalibrateReturn

Spec == Init /\ [][Next]_vars

\* The loop, once entered, runs on, and a call that began returns: the
\* program is one synchronous thread.  Only the environment's calls may
\* never come.
Run ==
    \/ Lookup
    \/ LookupKeyError
    \/ ComputeMoment
    \/ ScanReject
    \/ ScanAccept
    \/ ScanExhausted
    \/ OptimizeReturn
    \/ SenseLoad
    \/ CallUpdated
    \/ RecalibrateReturn

FairSpec == Spec /\ WF_vars(Run)

\* ---------------------------------------------------------------- claims

Zero == Rat(0, 1)

\* The calls of optimize_beam in the log that have ended, read in the
\* states where optimize_beam is not running: every call ends in one.
Ended == {i \in DOMAIN calls :
             /\ pc = "idle"
             /\ calls[i].fn = "optimize_beam"
             /\ calls[i].ret # Unbound}

InCatalog(a) == a.material \in DOMAIN MaterialTable

Sound(a) == Less(Zero, a.span) /\ Less(Zero, a.width) /\ InCatalog(a)

Allowable(a) == MaterialTable[a.material].allowable_stress

\* The depths of the scan written out: 0.20, 0.21, ..., 0.99.
Grid == [i \in 0 .. 79 |-> Rat(20 + i, 100)]

\* The bending stress at depth d in one fraction: M / Z with M = w L^2 / 8
\* and Z = b d^2 / 6 is 6 w L^2 / (8 b d^2).
RefStress(a, d) ==
    Div(Mul(Rat(6, 1), Mul(a.load_per_m, Mul(a.span, a.span))),
        Mul(Rat(8, 1), Mul(a.width, Mul(d, d))))

Ok(a, d) == Less(RefStress(a, d), Allowable(a))

\* The depth a returned dictionary carries.
DepthOf(r) == DecValue(r.depth, 3)

C3_NoSolutionIffNoneFeasible ==
    \A i \in Ended :
        LET a == calls[i].arg
            r == calls[i].ret
        IN  InCatalog(a) =>
                /\ r # KeyError
                /\ r.kind \in {"None", "dict"}
                /\ (r = None) <=> (\A k \in DOMAIN Grid : ~Ok(a, Grid[k]))
                /\ (r = None) <=> (r.kind # "dict")
                /\ (Sound(a) /\ ~Ok(a, Grid[79])) => r = None

\* None was returned for sound inputs and a positive load, and a dictionary
\* at a depth of 0.90 m or more was returned too (to the same top-level
\* call or not).
C3_Witness ==
    /\ \E i \in Ended :
          LET a == calls[i].arg
          IN  Sound(a) /\ Less(Zero, a.load_per_m) /\ calls[i].ret = None
    /\ \/ \E i \in Ended :
             /\ calls[i].ret.kind = "dict"
             /\ Leq(Rat(9, 10), DepthOf(calls[i].ret))
       \/ /\ memo # None
          /\ memo.ret.kind = "dict"
          /\ Leq(Rat(9, 10), DepthOf(memo.ret))

\* C5 (as claimed): optimize_beam with span <= 0 or width <= 0 fails before
\* computing anything: it never reaches the moment or the scan, and never
\* returns a dictionary or None.
C5_InvalidGeometryFailsFast ==
    /\ pc \in {"moment", "scan", "return"} =>
           Less(Zero, args.span) /\ Less(Zero, args.width)
    /\ \A i \in Ended :
           LET a == calls[i].arg
           IN  (Leq(a.span, Zero) \/ Leq(a.width, Zero)) =>
                   calls[i].ret.kind \notin {"dict", "None"}

\* What recalibrate_design(span, expected_load, material, width) passes to
\* optimize_beam for a load.
Passed(r, load) ==
    [span |-> r.span, load_per_m |-> load, material |-> r.material,
     width |-> r.width]

\* The order of recalibrate_design's calls: optimize_beam with the expected
\* load, once that has returned one simulate_sensor_load of the expected
\* load, then optimize_beam with the reading, the other arguments as given.
RecalibrateOrder ==
    result.of = "recalibrate_design" =>
        /\ Len(calls) \in 1 .. 3
        /\ calls[1].fn = "optimize_beam"
        /\ rpc # "none" => calls[1].arg = Passed(rargs, rargs.expected_load)
        /\ rpc \in {"initial", "sensor"} => Len(calls) = 1
        /\ rpc = "sensor" => calls[1].ret # Unbound
        /\ rpc = "recal" => Len(calls) = 2
        /\ rpc \in {"updated", "return"} => Len(calls) = 3
        /\ Len(calls) >= 2 =>
              /\ calls[1].ret \notin {Unbound, KeyError}
              /\ calls[2].fn = "simulate_sensor_load"
              /\ calls[2].arg = calls[1].arg.load_per_m
              /\ calls[2].ret \in
                    {simulate_sensor_load(calls[2].arg, v) : v \in Variations}
        /\ Len(calls) = 3 =>
              /\ calls[3].fn = "optimize_beam"
              /\ calls[3].arg = [calls[1].arg EXCEPT !.load_per_m = calls[2].ret]
        /\ result.kind = "return" =>
              /\ Len(calls) = 3
              /\ calls[3].ret \notin {Unbound, KeyError}

\* C6 (as claimed): recalibrate_design makes its three calls in order and
\* returns the three values initial, updated and observed load.
C6_ReturnsAllThree ==
    /\ RecalibrateOrder
    /\ (result.of = "recalibrate_design" /\ result.kind = "return") =>
           result.value = <<calls[1].ret, calls[3].ret, calls[2].ret>>

\* C6 (amended): recalibrate_design makes its three calls in order and
\* returns the two values initial and updated, each as optimize_beam
\* returned it, None included; the observed load is not returned.
C6_ReturnsInitialAndUpdated ==
    /\ RecalibrateOrder
    /\ (result.of = "recalibrate_design" /\ result.kind = "return") =>
           result.value = <<calls[1].ret, calls[3].ret>>

\* recalibrate_design has returned a dictionary and None, the reading
\* differing from the expected load.
C6_Witness ==
    /\ result.of = "recalibrate_design" /\ result.kind = "return"
    /\ result.value[1].kind = "dict"
    /\ result.value[2] = None
    /\ calls[2].ret # calls[2].arg

\* C7: with a material that is not in the catalog optimize_beam raises
\* before the moment is computed or a depth scanned; raised in
\* recalibrate_design's first call, the error ends recalibrate_design: no
\* sensor reading, no second call.
C7_UnknownMaterialAborts ==
    /\ pc \in {"moment", "scan", "return"} => InCatalog(args)
    /\ (rpc # "none" /\ ~InCatalog(rargs)) => (rpc = "initial" /\ pc = "lookup")
    /\ \A i \in Ended : ~InCatalog(calls[i].arg) <=> calls[i].ret = KeyError
    /\ result.kind = "raise" =>
          /\ result.value = KeyError
          /\ pc = "idle" /\ rpc = "none"
          /\ scanned = <<>>
          /\ Len(calls) = 1
          /\ calls[1].fn = "optimize_beam"
          /\ ~InCatalog(calls[1].arg)

\* recalibrate_design has ended with the KeyError.
C7_Witness ==
    /\ result.of = "recalibrate_design"
    /\ result.kind = "raise"
    /\ calls[1].ret = KeyError

\* C8: for span > 0, width > 0, a material of the catalog and a load <= 0,
\* optimize_beam returns a dictionary of depth 0.20 m; for a zero load the
\* stress is 0 and the safety factor, allowable / 0.0, is the infinity the
\* division yields, not an error.
C8_NonPositiveLoad ==
    \A i \in Ended :
        LET a == calls[i].arg
            r == calls[i].ret
        IN  (Sound(a) /\ Leq(a.load_per_m, Zero)) =>
                /\ r.kind = "dict"
                /\ DepthOf(r) = Rat(20, 100)
                /\ a.load_per_m = Zero =>
                      /\ DecValue(r.stress, 8) = Zero
                      /\ r.safety_factor.k = "inf"

\* A zero load has got its dictionary, and so had a negative load in an
\* earlier call.
C8_Witness ==
    /\ \E i \in Ended :
          /\ Sound(calls[i].arg) /\ calls[i].arg.load_per_m = Zero
          /\ calls[i].ret.kind = "dict"
    /\ memo # None
    /\ Sound(memo.arg) /\ Less(memo.arg.load_per_m, Zero)
    /\ memo.ret.kind = "dict"

\* The scan so far: positions 0, 1, 2, ... in order, none twice, the one
\* just visited (as each was) a depth of the grid, from 0.20 up to 0.99.
ScanOrder ==
    pc \in {"scan", "return"} =>
        /\ Len(scanned) <= 80
        /\ scanned = [k \in 1 .. Len(scanned) |-> k - 1]
        /\ scanned # <<>> =>
              LET last == scanned[Len(scanned)]
              IN  /\ Arange(last) = Grid[last]
                  /\ Leq(Rat(1, 5), Arange(last))
                  /\ Less(Arange(last), Rat(1, 1))
        /\ pc = "scan" => Len(scanned) = idx /\ best_solution = None
        /\ pc = "return" =>
              \/ /\ best_solution = None
                 /\ Len(scanned) = 80
              \/ /\ best_solution.kind = "dict"
                 /\ Len(scanned) = idx + 1
                 /\ DepthOf(best_solution) = Arange(idx)

\* C9: the depth scan visits the candidates in strictly ascending order,
\* at most 80 of them, none twice and none of 1.00 m or more; every step
\* of it ends it or leaves one candidate fewer; and it ends, at the first
\* candidate that passes or after the last one.
C9_ScanTerminates ==
    /\ []ScanOrder
    /\ [][pc = "scan" =>
             \/ pc' = "return"
             \/ pc' = "scan" /\ idx' = idx + 1 /\ idx' <= 80]_vars
    /\ (pc = "scan") ~> (pc = "return")

\* A scan has run through all 80 candidates, and an earlier one stopped
\* early, above 0.20 m.
C9_Witness ==
    /\ pc = "return"
    /\ best_solution = None
    /\ Len(scanned) = 80
    /\ memo # None
    /\ memo.ret.kind = "dict"
    /\ Less(Rat(1, 5), DepthOf(memo.ret))

\* The calls of optimize_beam the observer holds, with their outcomes.
Observed ==
    {[arg |-> calls[i].arg, ret |-> calls[i].ret] : i \in Ended}
        \cup (IF pc = "idle" /\ memo # None THEN {memo} ELSE {})

\* C4: for span > 0, width > 0 and a material of the catalog, of two calls
\* that differ in the load alone the one with the larger load returns no
\* smaller a depth, and returns None if the other, for a positive load,
\* returned None.
C4_MonotoneInLoad ==
    \A x, y \in Observed :
        (/\ Sound(x.arg)
         /\ Geometry(x.arg) = Geometry(y.arg)
         /\ Leq(x.arg.load_per_m, y.arg.load_per_m)) =>
            /\ (x.ret.kind = "dict" /\ y.ret.kind = "dict") =>
                   Leq(DepthOf(x.ret), DepthOf(y.ret))
            /\ (x.ret = None /\ Less(Zero, x.arg.load_per_m)) => y.ret = None

\* An earlier top-level call and the call that has just returned differ in
\* the load alone; the smaller load got a dictionary, the larger one a
\* strictly larger depth.
C4_Witness ==
    /\ result.of = "optimize_beam" /\ result.kind = "return"
    /\ memo # None
    /\ Sound(memo.arg)
    /\ Less(memo.arg.load_per_m, calls[1].arg.load_per_m)
    /\ memo.ret.kind = "dict"
    /\ calls[1].ret.kind = "dict"
    /\ Less(DepthOf(memo.ret), DepthOf(calls[1].ret))

\* C10: the material table is never changed, and two calls of
\* optimize_beam with the same arguments have the same outcome, whatever
\* was called between them.
C10_NoHiddenState ==
    /\ MATERIALS = MaterialTable
    /\ \A x, y \in Observed : x.arg = y.arg => x.ret = y.ret

\* recalibrate_design's second call has returned; it had the arguments of
\* an earlier top-level call's, the first call, of another load, and the
\* sensor's having run in between.
C10_Witness ==
    /\ pc = "idle"
    /\ result.of = "recalibrate_design" /\ result.kind = "return"
    /\ memo # None
    /\ calls[1].arg # memo.arg
    /\ calls[3].arg = memo.arg
    /\ calls[3].ret.kind = "dict"

====
